---------------------------- MODULE Spec2Model ----------------------------
(***************************************************************************)
(* chirpy: the authentication and authorization core of the service.       *)
(*                                                                         *)
(* Time is counted in ticks, TicksPerSec ticks to the second, so that the  *)
(* whole-second precision of JWT numeric dates differs from the clock's    *)
(* own precision, as it does in the program.  Strings that travel in the   *)
(* Authorization header are sequences of atoms: a literal piece of text,   *)
(* an opaque hex token, or a signed JWT.                                   *)
(***************************************************************************)
EXTENDS Integers, Sequences, FiniteSets, TLC

VARIABLES
    clock,            \* time.Now() / SQL NOW(), in ticks
    users,            \* relation users: id -> [email, hashed_password]
    refresh_tokens,   \* relation refresh_tokens: set of rows
    chirps,           \* relation chirps: id -> [user_id]
    ids,              \* gen_random_uuid() / rand.Read: what has been drawn so far
    resp,             \* the last request and the response written to it
    jwt,              \* harness of the auth package's pure functions
    reqs              \* requests in flight, each at a statement of its handler

vars == <<clock, users, refresh_tokens, chirps, ids, resp, jwt, reqs>>

---------------------------------------------------------------------------
(* Bounds of the model.                                                    *)

TicksPerSec == 2
MaxUsers == 2
MaxRefreshTokens == 2
MaxChirps == 1
MaxTTL == 4
MaxJwtClock == 8
\* Login, refresh and revoke requests served at once.
MaxRequests == 2

---------------------------------------------------------------------------
(* Program constants.                                                      *)

\* time.Hour, the lifetime postLogin and postRefresh give an access token.
HourSeconds == 3600
Hour == HourSeconds * TicksPerSec

\* INTERVAL '60 DAYS' of CreateRefreshToken.
RefreshDays == 60
RefreshWindow == RefreshDays * 24 * 3600 * TicksPerSec

\* revoked_at IS NULL
NULL == -1

\* uuid.Nil
NilUUID == 0

StatusOK == 200
StatusCreated == 201
StatusNoContent == 204
StatusBadRequest == 400
StatusUnauthorized == 401
StatusForbidden == 403
StatusNotFound == 404
StatusInternalServerError == 500

---------------------------------------------------------------------------
(* Strings.                                                                *)

\* uuid.UUID.String(): the textual form of an id.
UUIDString(id) == <<"uuid", id>>

\* A subject or path value that is no UUID.
NotAUUID == <<"text", 0>>

\* uuid.Parse
ParseUUID(s) ==
    IF s[1] = "uuid" /\ s[2] # NilUUID
    THEN [ok |-> TRUE, id |-> s[2]]
    ELSE [ok |-> FALSE, id |-> NilUUID]

\* HMAC-SHA256 over the token's claims, as an ideal MAC: the tag names the
\* key and exactly the claims it was computed over.
HS256(key, iss, sub, iat, exp) == <<key, iss, sub, iat, exp>>

NoMac == HS256("", "", NotAUUID, 0, 0)

\* A literal piece of header text.
Lit(s) ==
    [kind |-> "lit", text |-> s, iss |-> "", sub |-> NotAUUID,
     iat |-> 0, exp |-> 0, mac |-> NoMac, chars |-> 0]

\* make([]byte, 32)
RefreshTokenBytes == 32

\* hex.EncodeToString: two characters to the byte.
EncodedLen(n) == 2 * n

\* hex.EncodeToString of the random bytes; n names the bytes drawn, chars is
\* the length of the string.
HexToken(n) ==
    [kind |-> "hex", text |-> "", iss |-> "", sub |-> <<"hex", n>>,
     iat |-> 0, exp |-> 0, mac |-> NoMac, chars |-> EncodedLen(RefreshTokenBytes)]

\* A compact JWS: header.claims.signature.
JWS(iss, sub, iat, exp, mac) ==
    [kind |-> "jwt", text |-> "", iss |-> iss, sub |-> sub,
     iat |-> iat, exp |-> exp, mac |-> mac, chars |-> 0]

SP == Lit(" ")
BEARER == Lit("Bearer")

\* strings.TrimPrefix
TrimPrefix(s, prefix) ==
    IF Len(s) >= Len(prefix) /\ SubSeq(s, 1, Len(prefix)) = prefix
    THEN SubSeq(s, Len(prefix) + 1, Len(s))
    ELSE s

RECURSIVE TrimLeft(_)
TrimLeft(s) ==
    IF s # <<>> /\ Head(s) = SP THEN TrimLeft(Tail(s)) ELSE s

RECURSIVE TrimRight(_)
TrimRight(s) ==
    IF s # <<>> /\ s[Len(s)] = SP THEN TrimRight(SubSeq(s, 1, Len(s) - 1)) ELSE s

\* strings.TrimSpace
TrimSpace(s) == TrimRight(TrimLeft(s))

---------------------------------------------------------------------------
(* package auth                                                            *)

\* jwt.NewNumericDate: a time truncated to the second.
NewNumericDate(t) == (t \div TicksPerSec) * TicksPerSec

\* MakeJWT reads the clock twice: now1 for IssuedAt, now2 for ExpiresAt.
MakeJWT(userID, tokenSecret, expiresIn, now1, now2) ==
    LET iss == "chirpy"
        sub == UUIDString(userID)
        iat == NewNumericDate(now1)
        exp == NewNumericDate(now2 + expiresIn)
    IN  JWS(iss, sub, iat, exp, HS256(tokenSecret, iss, sub, iat, exp))

JWTError(e) == [ok |-> FALSE, id |-> NilUUID, err |-> e]

\* A signature check that recomputes the tag under the key the tag itself names.
SignatureValidAnyKey(tok, tokenSecret) ==
    tok.mac = HS256(tok.mac[1], tok.iss, tok.sub, tok.iat, tok.exp)

\* The signature check of jwt.ParseWithClaims under the key the keyfunc gives.
SignatureValid(tok, tokenSecret) ==
    tok.mac = HS256(tokenSecret, tok.iss, tok.sub, tok.iat, tok.exp)

\* A validation that also takes a stored refresh token for its owner.
ValidateJWTOrRefresh(tokenString, tokenSecret, now) ==
    IF \E r \in refresh_tokens : r.token = tokenString
    THEN LET r == CHOOSE r \in refresh_tokens : r.token = tokenString
         IN  [ok |-> TRUE, id |-> r.user_id, err |-> ""]
    ELSE IF Len(tokenString) # 1 \/ tokenString[1].kind # "jwt"
    THEN JWTError("malformed")
    ELSE LET tok == tokenString[1] IN
         IF ~SignatureValid(tok, tokenSecret) THEN JWTError("signature")
         ELSE IF ~(now < tok.exp) THEN JWTError("expired")
         ELSE IF tok.iss # "chirpy" THEN JWTError("invalid issuer")
         ELSE IF ~ParseUUID(tok.sub).ok THEN JWTError("subject")
         ELSE [ok |-> TRUE, id |-> ParseUUID(tok.sub).id, err |-> ""]

\* A validation that looks the subject up among the stored users.
ValidateJWTStored(tokenString, tokenSecret, now) ==
    IF Len(tokenString) # 1 \/ tokenString[1].kind # "jwt"
    THEN JWTError("malformed")
    ELSE LET tok == tokenString[1] IN
         IF ~SignatureValid(tok, tokenSecret) THEN JWTError("signature")
         ELSE IF ~(now < tok.exp) THEN JWTError("expired")
         ELSE IF tok.iss # "chirpy" THEN JWTError("invalid issuer")
         ELSE IF ~ParseUUID(tok.sub).ok THEN JWTError("subject")
         ELSE IF ParseUUID(tok.sub).id \notin DOMAIN users THEN JWTError("no user")
         ELSE [ok |-> TRUE, id |-> ParseUUID(tok.sub).id, err |-> ""]

\* ValidateJWT at clock reading now.
ValidateJWT(tokenString, tokenSecret, now) ==
    IF Len(tokenString) # 1 \/ tokenString[1].kind # "jwt"
    THEN JWTError("malformed")
    ELSE LET tok == tokenString[1] IN
         IF ~SignatureValid(tok, tokenSecret) THEN JWTError("signature")
         ELSE IF ~(now < tok.exp) THEN JWTError("expired")
         ELSE IF tok.iss # "chirpy" THEN JWTError("invalid issuer")
         ELSE IF ~ParseUUID(tok.sub).ok THEN JWTError("subject")
         ELSE [ok |-> TRUE, id |-> ParseUUID(tok.sub).id, err |-> ""]

\* GetBearerToken on the value of the Authorization header (<<>>: not sent).
GetBearerToken(authorization) ==
    IF authorization = <<>>
    THEN [ok |-> FALSE, token |-> <<>>]
    ELSE [ok |-> TRUE,
          token |-> TrimSpace(TrimPrefix(authorization, <<BEARER, SP>>))]

\* MakeRefreshToken: n names the 32 bytes rand.Read drew.
MakeRefreshToken(n) == <<HexToken(n)>>

---------------------------------------------------------------------------
(* Configuration and inputs.                                               *)

\* a.secret, os.Getenv("SECRET"): fixed when the process starts.
Secret == "s1"

\* Signing keys a caller may try.
Secrets == {"s1", "s2"}

Emails == {"", "a@x", "b@x"}
\* Passwords are sequences of pieces of text; <<>> is the empty string.
Passwords == {<<>>, <<"pw">>}

\* What json.Decode makes of a request body: an error, or the two fields.
Undecodable == [decoded |-> FALSE, email |-> "", password |-> <<>>]
UserBodies ==
    {Undecodable} \cup
    {[decoded |-> TRUE, email |-> e, password |-> p] : e \in Emails, p \in Passwords}

\* The bodies sent to postLogin: those of postUsers, and for each email a
\* password no user has.
LoginBodies ==
    UserBodies \cup
    {[decoded |-> TRUE, email |-> e, password |-> <<"other">>] : e \in Emails \ {""}}

\* The bodies sent to putUsers: none that decodes, a new email and password,
\* and both fields empty.
UpdateBodies ==
    {Undecodable,
     [decoded |-> TRUE, email |-> "b@x", password |-> <<"pw">>],
     [decoded |-> TRUE, email |-> "", password |-> <<>>]}

\* Chirp bodies by what postChirps does with them.
ChirpBodies == {"undecodable", "empty", "blank", "ok", "long"}

\* The clock readings of the model: the instant the service starts, and the
\* two ticks at which a refresh token issued then is about to expire and has
\* expired.
Instants == {0, RefreshWindow - 1, RefreshWindow}

\* Later than every clock reading of the model.
FarFuture == 2 * RefreshWindow

\* A token string rand.Read never produced.
UnknownToken == <<HexToken(0)>>

\* An access token signed by a process that holds tokenSecret, issued at 0.
Signed(iss, sub, exp, tokenSecret) ==
    <<JWS(iss, sub, 0, exp, HS256(tokenSecret, iss, sub, 0, exp))>>

\* Access tokens of other instances of the service, which share the secret.
PeerTokens == {Signed("chirpy", UUIDString(u), FarFuture, Secret) : u \in 1..MaxUsers}

\* Tokens ValidateJWT has to refuse: signed with another key, another issuer,
\* a subject that is no UUID, expired, claims changed after signing.
BadTokens ==
    { Signed("chirpy", UUIDString(1), FarFuture, "s2"),
      Signed("other", UUIDString(1), FarFuture, Secret),
      Signed("chirpy", NotAUUID, FarFuture, Secret),
      Signed("chirpy", UUIDString(1), 0, Secret),
      <<JWS("chirpy", UUIDString(2), 0, FarFuture,
            HS256(Secret, "chirpy", UUIDString(1), 0, FarFuture))>> }

---------------------------------------------------------------------------
(* Storage: the queries of sql/queries, NOW() being the clock.             *)

\* bcrypt takes at most 72 bytes of a password; a piece of password text
\* stands for 36 bytes, so the limit is two pieces.
BcryptLimit == 2

\* The bytes of the password that reach the Blowfish key schedule.
BcryptKey(password) ==
    SubSeq(password, 1, IF Len(password) < BcryptLimit THEN Len(password)
                        ELSE BcryptLimit)

\* A comparison that accepts every password against a well-formed hash.
CheckPasswordHashAny(password, hash) == hash # <<>> /\ hash[1] = "bcrypt"

\* bcrypt.GenerateFromPassword refuses a password above the limit
\* (ErrPasswordTooLong); the salt, which no outcome depends on, is left out.
HashPassword(password) ==
    IF Len(password) > BcryptLimit
    THEN [ok |-> FALSE, hash |-> <<>>]
    ELSE [ok |-> TRUE, hash |-> <<"bcrypt", BcryptKey(password)>>]

\* bcrypt.CompareHashAndPassword has no length check of its own.
CheckPasswordHash(password, hash) == hash = <<"bcrypt", BcryptKey(password)>>

\* users.email is unique.
EmailTaken(email, except) ==
    \E u \in DOMAIN users : u # except /\ users[u].email = email

GetUserByEmail(email) == {u \in DOMAIN users : users[u].email = email}

CreateUser(id, email, hashed) ==
    [u \in DOMAIN users \cup {id} |->
        IF u = id THEN [email |-> email, hashed_password |-> hashed] ELSE users[u]]

UpdateUser(email, hashed, id) ==
    [users EXCEPT ![id] = [email |-> email, hashed_password |-> hashed]]

\* An insert that stores the row without its owner.
CreateRefreshTokenUnowned(token, userID, now) ==
    [token |-> token, created_at |-> now, updated_at |-> now,
     user_id |-> NilUUID, expires_at |-> now + RefreshWindow, revoked_at |-> NULL]

CreateRefreshToken(token, userID, now) ==
    [token |-> token, created_at |-> now, updated_at |-> now,
     user_id |-> userID, expires_at |-> now + RefreshWindow, revoked_at |-> NULL]

\* A lookup that still returns the row at its expiry instant.
GetRefreshTokenInclusive(token, now) ==
    {r \in refresh_tokens :
        r.token = token /\ r.revoked_at = NULL /\ r.expires_at >= now}

GetRefreshToken(token, now) ==
    {r \in refresh_tokens :
        r.token = token /\ r.revoked_at = NULL /\ r.expires_at > now}

\* A revocation that removes the row.
RevokeRefreshTokenDelete(token, now) ==
    {r \in refresh_tokens : r.token # token}

\* An update that flips revoked_at instead of setting it.
RevokeRefreshTokenToggle(token, now) ==
    {IF r.token = token
     THEN [r EXCEPT !.revoked_at = IF @ = NULL THEN now ELSE NULL, !.updated_at = now]
     ELSE r : r \in refresh_tokens}

\* An update without its WHERE clause.
RevokeRefreshTokenAll(token, now) ==
    {[r EXCEPT !.revoked_at = now, !.updated_at = now] : r \in refresh_tokens}

\* An update in two statements, seen after the first.
RevokeRefreshTokenHalf(token, now) ==
    {IF r.token = token
     THEN [r EXCEPT !.revoked_at = now]
     ELSE r : r \in refresh_tokens}

RevokeRefreshToken(token, now) ==
    {IF r.token = token
     THEN [r EXCEPT !.revoked_at = now, !.updated_at = now]
     ELSE r : r \in refresh_tokens}

\* ResetUsers: DELETE FROM users.
ResetUsers == <<>>

\* What the deletion of every user leaves of refresh_tokens: the rows are
\* never deleted, only marked revoked.
RefreshTokensAfterReset == refresh_tokens

\* chirps.user_id references users.
CreateChirp(id, userID) ==
    [c \in DOMAIN chirps \cup {id} |-> IF c = id THEN [user_id |-> userID] ELSE chirps[c]]

GetChirp(id) == {c \in DOMAIN chirps : c = id}

DeleteChirp(id) == [c \in DOMAIN chirps \ {id} |-> chirps[c]]

---------------------------------------------------------------------------
(* Requests and responses.                                                 *)

NoPayload ==
    [ctype |-> "", text |-> "", token |-> <<>>, refresh_token |-> <<>>, id |-> NilUUID]

JSON(token, refreshToken, id) ==
    [ctype |-> "application/json", text |-> "",
     token |-> token, refresh_token |-> refreshToken, id |-> id]

Text(t) ==
    [ctype |-> "text/plain", text |-> t, token |-> <<>>, refresh_token |-> <<>>,
     id |-> NilUUID]

\* writes: the statuses the handler passed to WriteHeader, in order.
Response(op, hdr, writes, payload) ==
    [op |-> op, hdr |-> hdr, path |-> NotAUUID, writes |-> writes, payload |-> payload]

\* The status the client sees: the first WriteHeader counts.
Status(r) == IF r.writes = <<>> THEN 0 ELSE r.writes[1]

NoRequest == Response("", <<>>, <<>>, NoPayload)

\* What a caller may send as Authorization: nothing, or the Bearer scheme with
\* a token it was given, a token it made up, or a token of another instance.
Credentials ==
    {r.token : r \in refresh_tokens} \cup PeerTokens \cup BadTokens
    \cup (IF resp.payload.token # <<>> THEN {resp.payload.token} ELSE {})

Bearer(c) == <<BEARER, SP>> \o c

\* Sent to the handlers that take an access token.
Headers == {<<>>} \cup {Bearer(c) : c \in Credentials}

\* The Bearer scheme with a token some instance of the service issued: an
\* access token, or a refresh token in its place.
IssuedHeaders ==
    {Bearer(c) : c \in {r.token : r \in refresh_tokens} \cup PeerTokens
                        \cup (IF resp.payload.token # <<>>
                              THEN {resp.payload.token} ELSE {})}

\* The Bearer scheme with a stored refresh token, and with an access token.
RefreshTokenHeaders == {Bearer(r.token) : r \in refresh_tokens}

AccessTokenHeaders ==
    {Bearer(c) : c \in PeerTokens \cup (IF resp.payload.token # <<>>
                                        THEN {resp.payload.token} ELSE {})}

\* Sent to postRefresh and postRevoke, which take a refresh token.
RefreshHeaders ==
    {<<>>} \cup
    {Bearer(c) : c \in {r.token : r \in refresh_tokens} \cup {UnknownToken}
                        \cup {Signed("chirpy", UUIDString(1), FarFuture, Secret)}}

Paths == {UUIDString(c) : c \in 1..(MaxChirps + 1)} \cup {NotAUUID}

---------------------------------------------------------------------------
(* The handlers of main.go.  fault numbers the storage statement that      *)
(* fails for a reason of the storage layer's own (0: none does).           *)

postUsers(body, fault) ==
    LET reached == body.decoded /\ body.email # "" /\ body.password # <<>>
        hashed == HashPassword(body.password)
        id == ids.user + 1
        inserted == /\ reached /\ hashed.ok /\ fault = 0
                    /\ ~EmailTaken(body.email, NilUUID)
    IN  /\ fault # 0 => (reached /\ hashed.ok)
        /\ inserted => ids.user < MaxUsers
        /\ users' = IF inserted
                    THEN CreateUser(id, body.email, hashed.hash)
                    ELSE users
        /\ ids' = IF inserted THEN [ids EXCEPT !.user = id] ELSE ids
        /\ resp' =
            IF ~body.decoded
            THEN Response("postUsers", <<>>,
                          <<StatusInternalServerError>>, NoPayload)
            ELSE IF ~reached
            THEN Response("postUsers", <<>>,
                          <<StatusBadRequest>>, NoPayload)
            ELSE IF ~inserted
            THEN Response("postUsers", <<>>,
                          <<StatusInternalServerError>>, NoPayload)
            ELSE Response("postUsers", <<>>,
                          <<StatusCreated>>, JSON(<<>>, <<>>, id))
        /\ UNCHANGED <<clock, refresh_tokens, chirps, jwt, reqs>>

postLogin(body, fault, d) ==
    LET found == IF body.decoded THEN GetUserByEmail(body.email) ELSE {}
        row == CHOOSE u \in found : TRUE
        checked == body.decoded /\ fault # 1 /\ found # {}
        matched == checked /\ CheckPasswordHash(body.password, users[row].hashed_password)
        now2 == clock + d
        tokenString == <<MakeJWT(row, Secret, Hour, clock, now2)>>
        refreshToken == MakeRefreshToken(ids.token + 1)
        inserted == matched /\ fault # 2
    IN  /\ fault = 1 => body.decoded
        /\ fault = 2 => matched
        /\ d # 0 => matched
        /\ now2 \in Instants
        /\ matched => ids.token < MaxRefreshTokens
        /\ clock' = now2
        /\ ids' = IF inserted THEN [ids EXCEPT !.token = @ + 1] ELSE ids
        /\ refresh_tokens' =
            IF inserted
            THEN refresh_tokens \cup {CreateRefreshToken(refreshToken, row, now2)}
            ELSE refresh_tokens
        /\ resp' =
            IF ~checked
            THEN Response("postLogin", <<>>,
                          <<StatusInternalServerError>>, NoPayload)
            ELSE IF ~matched
            THEN Response("postLogin", <<>>,
                          <<StatusUnauthorized>>, Text("Incorrect email or password"))
            ELSE IF ~inserted
            THEN Response("postLogin", <<>>,
                          <<StatusInternalServerError>>, NoPayload)
            ELSE Response("postLogin", <<>>,
                          <<StatusOK>>, JSON(tokenString, refreshToken, row))
        /\ UNCHANGED <<users, chirps, jwt, reqs>>

\* A redemption that slides the expiry of the row it found.
RefreshWritesSliding(found, now) ==
    {IF r \in found THEN [r EXCEPT !.expires_at = now + RefreshWindow, !.updated_at = now]
     ELSE r : r \in refresh_tokens}

\* What postRefresh writes to refresh_tokens: it only selects.
RefreshWrites(found, now) == refresh_tokens

\* An answer that tells a token that was issued from one that never was.
RefreshDeniedDistinct(token, now) ==
    IF \E r \in refresh_tokens : r.token = token
    THEN <<StatusForbidden>>
    ELSE <<StatusUnauthorized>>

\* The answer to a token GetRefreshToken finds no row for (sql.ErrNoRows).
RefreshDenied(token, now) == <<StatusUnauthorized>>

postRefresh(hdr, fault, d) ==
    LET bearer == GetBearerToken(hdr)
        found == IF bearer.ok /\ fault = 0
                 THEN GetRefreshToken(bearer.token, clock) ELSE {}
        refreshTokenRow == CHOOSE r \in found : TRUE
        now2 == clock + d
        tokenString == <<MakeJWT(refreshTokenRow.user_id, Secret, Hour, clock, now2)>>
    IN  /\ fault # 0 => bearer.ok
        /\ d # 0 => found # {}
        /\ now2 \in Instants
        /\ clock' = now2
        /\ refresh_tokens' = RefreshWrites(found, clock)
        /\ resp' =
            IF ~bearer.ok
            THEN Response("postRefresh", hdr, <<StatusUnauthorized>>, NoPayload)
            ELSE IF fault # 0
            THEN Response("postRefresh", hdr, <<StatusInternalServerError>>, NoPayload)
            ELSE IF found = {}
            THEN Response("postRefresh", hdr, RefreshDenied(bearer.token, clock),
                          NoPayload)
            ELSE Response("postRefresh", hdr, <<StatusOK>>,
                          JSON(tokenString, <<>>, NilUUID))
        /\ UNCHANGED <<users, chirps, ids, jwt, reqs>>

postRevoke(hdr, fault) ==
    LET bearer == GetBearerToken(hdr)
    IN  /\ fault # 0 => bearer.ok
        /\ refresh_tokens' =
            IF bearer.ok /\ fault = 0
            THEN RevokeRefreshToken(bearer.token, clock)
            ELSE refresh_tokens
        /\ resp' =
            IF ~bearer.ok
            THEN Response("postRevoke", hdr,
                          <<StatusUnauthorized>>, NoPayload)
            ELSE IF fault # 0
            THEN Response("postRevoke", hdr,
                          <<StatusInternalServerError, StatusNoContent>>, NoPayload)
            ELSE Response("postRevoke", hdr,
                          <<StatusNoContent>>, NoPayload)
        /\ UNCHANGED <<clock, users, chirps, ids, jwt, reqs>>

putUsers(hdr, body, fault) ==
    LET bearer == GetBearerToken(hdr)
        valid == IF bearer.ok THEN ValidateJWT(bearer.token, Secret, clock)
                 ELSE JWTError("no token")
        userID == valid.id
        reached == valid.ok /\ body.decoded
        hashed == HashPassword(body.password)
        updated == /\ reached /\ hashed.ok /\ fault = 0
                   /\ userID \in DOMAIN users
                   /\ ~EmailTaken(body.email, userID)
    IN  /\ fault # 0 => (reached /\ hashed.ok)
        /\ users' = IF updated
                    THEN UpdateUser(body.email, hashed.hash, userID)
                    ELSE users
        /\ resp' =
            IF ~valid.ok
            THEN Response("putUsers", hdr,
                          <<StatusUnauthorized>>, NoPayload)
            ELSE IF ~body.decoded
            THEN Response("putUsers", hdr,
                          <<StatusInternalServerError>>, NoPayload)
            ELSE IF ~updated
            THEN Response("putUsers", hdr,
                          <<StatusInternalServerError>>, NoPayload)
            ELSE Response("putUsers", hdr,
                          <<StatusOK>>, JSON(<<>>, <<>>, userID))
        /\ UNCHANGED <<clock, refresh_tokens, chirps, ids, jwt, reqs>>

postChirps(hdr, body, fault) ==
    LET decoded == body # "undecodable"
        bearer == GetBearerToken(hdr)
        valid == IF bearer.ok THEN ValidateJWT(bearer.token, Secret, clock)
                 ELSE JWTError("no token")
        userID == valid.id
        id == ids.chirp + 1
        reached == decoded /\ valid.ok /\ body = "ok"
        inserted == reached /\ fault = 0 /\ userID \in DOMAIN users
    IN  /\ fault # 0 => reached
        /\ inserted => ids.chirp < MaxChirps
        /\ chirps' = IF inserted THEN CreateChirp(id, userID) ELSE chirps
        /\ ids' = IF inserted THEN [ids EXCEPT !.chirp = id] ELSE ids
        /\ resp' =
            IF ~decoded
            THEN Response("postChirps", hdr,
                          <<StatusInternalServerError>>, NoPayload)
            ELSE IF ~valid.ok
            THEN Response("postChirps", hdr,
                          <<StatusUnauthorized>>, NoPayload)
            ELSE IF body = "empty"
            THEN Response("postChirps", hdr,
                          <<StatusBadRequest>>, NoPayload)
            ELSE IF body = "blank"    \* cleanString slices "" and panics
            THEN Response("postChirps", hdr,
                          <<>>, NoPayload)
            ELSE IF body = "long"
            THEN Response("postChirps", hdr,
                          <<StatusBadRequest>>,
                          [JSON(<<>>, <<>>, NilUUID) EXCEPT !.text = "Chirp is too long"])
            ELSE IF ~inserted
            THEN Response("postChirps", hdr,
                          <<StatusInternalServerError>>, NoPayload)
            ELSE Response("postChirps", hdr,
                          <<StatusCreated>>, JSON(<<>>, <<>>, id))
        /\ UNCHANGED <<clock, users, refresh_tokens, jwt, reqs>>

\* An authorization that permits every authenticated caller.
AuthorizeAnyone(chirp, userID) == TRUE

\* resource access is permitted iff the chirp's user_id is the caller's.
AuthorizeOwner(chirp, userID) == chirp.user_id = userID

\* The checks in another order: the caller and its ownership first, the
\* chirp's existence last.
DeleteOutcomeOwnerFirst(path, hdr, fault) ==
    LET chirpID == ParseUUID(path)
        found == IF chirpID.ok /\ fault # 1 THEN GetChirp(chirpID.id) ELSE {}
        bearer == GetBearerToken(hdr)
        valid == IF bearer.ok THEN ValidateJWT(bearer.token, Secret, clock)
                 ELSE JWTError("no token")
        owned == {c \in found : AuthorizeOwner(chirps[c], valid.id)}
    IN  IF ~chirpID.ok THEN [status |-> StatusBadRequest, reached |-> FALSE]
        ELSE IF fault = 1 THEN [status |-> StatusInternalServerError, reached |-> FALSE]
        ELSE IF ~valid.ok THEN [status |-> StatusUnauthorized, reached |-> FALSE]
        ELSE IF owned = {} THEN [status |-> StatusForbidden, reached |-> FALSE]
        ELSE IF fault = 2 THEN [status |-> StatusInternalServerError, reached |-> TRUE]
        ELSE [status |-> StatusNoContent, reached |-> TRUE]

\* The checks of deleteChirpsChirpID in the order the handler makes them:
\* the status it writes, and whether it reaches DeleteChirp.
DeleteOutcome(path, hdr, fault) ==
    LET chirpID == ParseUUID(path)
        found == IF chirpID.ok /\ fault # 1 THEN GetChirp(chirpID.id) ELSE {}
        bearer == GetBearerToken(hdr)
        valid == IF bearer.ok THEN ValidateJWT(bearer.token, Secret, clock)
                 ELSE JWTError("no token")
    IN  IF ~chirpID.ok THEN [status |-> StatusBadRequest, reached |-> FALSE]
        ELSE IF fault = 1 THEN [status |-> StatusInternalServerError, reached |-> FALSE]
        ELSE IF found = {} THEN [status |-> StatusNotFound, reached |-> FALSE]
        ELSE IF ~valid.ok THEN [status |-> StatusUnauthorized, reached |-> FALSE]
        ELSE IF ~AuthorizeOwner(chirps[chirpID.id], valid.id)
        THEN [status |-> StatusForbidden, reached |-> FALSE]
        ELSE IF fault = 2 THEN [status |-> StatusInternalServerError, reached |-> TRUE]
        ELSE [status |-> StatusNoContent, reached |-> TRUE]

deleteChirpsChirpID(path, hdr, fault) ==
    LET chirpID == ParseUUID(path)
        outcome == DeleteOutcome(path, hdr, fault)
        deleted == outcome.reached /\ fault # 2
    IN  /\ fault = 1 => chirpID.ok
        /\ fault = 2 => outcome.reached
        /\ chirps' = IF deleted THEN DeleteChirp(chirpID.id) ELSE chirps
        /\ resp' = [Response("deleteChirpsChirpID", hdr, <<outcome.status>>, NoPayload)
                        EXCEPT !.path = path]
        /\ UNCHANGED <<clock, users, refresh_tokens, ids, jwt, reqs>>

\* a.platform, os.Getenv("PLATFORM"): "dev" allows the reset.
Platforms == {"dev", "prod"}

postReset(platform, fault) ==
    LET allowed == platform = "dev"
        deleted == allowed /\ fault = 0
    IN  /\ fault # 0 => allowed
        /\ users' = IF deleted THEN ResetUsers ELSE users
        /\ refresh_tokens' = IF deleted THEN RefreshTokensAfterReset ELSE refresh_tokens
        /\ resp' =
            IF ~allowed
            THEN Response("postReset", <<>>, <<StatusForbidden>>, NoPayload)
            ELSE IF fault # 0
            THEN Response("postReset", <<>>, <<StatusInternalServerError>>, NoPayload)
            ELSE Response("postReset", <<>>, <<StatusOK>>, Text("counter reset"))
        /\ UNCHANGED <<clock, chirps, ids, jwt, reqs>>

\* Time passes between two requests.
Advance(now) ==
    /\ now > clock
    /\ clock' = now
    /\ UNCHANGED <<users, refresh_tokens, chirps, ids, resp, jwt, reqs>>

---------------------------------------------------------------------------
(* The service: an empty database, then any request at any time.           *)

NoJWT ==
    [pc |-> "idle", user |-> NilUUID, secret |-> "", ttl |-> 0, issued |-> 0,
     token |-> <<>>, vsecret |-> "", vclock |-> 0, result |-> JWTError(""),
     authorization |-> <<>>, bearer |-> [ok |-> FALSE, token |-> <<>>],
     password |-> <<>>, hash |-> <<>>, attempt |-> <<>>, match |-> FALSE]

\* A connection net/http has not yet handed to a handler.
NoReq ==
    [op |-> "", pc |-> "idle", body |-> Undecodable, hdr |-> <<>>,
     user |-> {}, row |-> {}, writes |-> <<>>, mutations |-> 0]

Init ==
    /\ clock = 0
    /\ users = <<>>
    /\ refresh_tokens = {}
    /\ chirps = <<>>
    /\ ids = [user |-> 0, token |-> 0, chirp |-> 0]
    /\ resp = NoRequest
    /\ jwt = NoJWT
    /\ reqs = [i \in 1..MaxRequests |-> NoReq]

Register == \E body \in UserBodies, fault \in 0..1 : postUsers(body, fault)
Login == \E body \in LoginBodies, fault \in 0..2, d \in 0..1 : postLogin(body, fault, d)
Refresh == \E hdr \in RefreshHeaders, fault \in 0..1, d \in 0..1 : postRefresh(hdr, fault, d)
Revoke == \E hdr \in RefreshHeaders, fault \in 0..1 : postRevoke(hdr, fault)
Update == \E hdr \in Headers, body \in UpdateBodies, fault \in 0..1 : putUsers(hdr, body, fault)
Chirp == \E hdr \in Headers, body \in ChirpBodies, fault \in 0..1 : postChirps(hdr, body, fault)
Delete == \E path \in Paths, hdr \in Headers, fault \in 0..2 : deleteChirpsChirpID(path, hdr, fault)
Tick == \E now \in Instants : Advance(now)
Reset == \E platform \in Platforms, fault \in 0..1 : postReset(platform, fault)

\* The protected operations as callers who hold an issued token send them.
UpdateIssued == \E hdr \in IssuedHeaders, body \in UpdateBodies : putUsers(hdr, body, 0)
ChirpIssued == \E hdr \in IssuedHeaders, body \in ChirpBodies : postChirps(hdr, body, 0)

\* A refresh token sent where an access token belongs, and the reverse.
UpdateByRefreshToken ==
    \E hdr \in RefreshTokenHeaders, body \in UpdateBodies : putUsers(hdr, body, 0)
DeleteByRefreshToken ==
    \E path \in Paths, hdr \in RefreshTokenHeaders : deleteChirpsChirpID(path, hdr, 0)
RefreshByAccessToken ==
    \E hdr \in AccessTokenHeaders, d \in 0..1 : postRefresh(hdr, 0, d)

Next ==
    \/ Register
    \/ Login
    \/ Refresh
    \/ Revoke
    \/ Update
    \/ Chirp
    \/ Delete
    \/ Tick
    \/ Reset

Spec == Init /\ [][Next]_vars

\* The refresh-token lifecycle: the requests that read or write refresh_tokens.
NextTokens ==
    \/ Register
    \/ Login
    \/ Refresh
    \/ Revoke
    \/ Tick

SpecTokens == Init /\ [][NextTokens]_vars

\* The protected operations: the requests that take an access token.
NextProtected ==
    \/ Register
    \/ Update
    \/ Chirp
    \/ Delete

SpecProtected == Init /\ [][NextProtected]_vars

\* The life of the stored rows: every request that writes users or
\* refresh_tokens, at one clock reading.
NextRows ==
    \/ Register
    \/ Login
    \/ Refresh
    \/ Revoke
    \/ UpdateIssued
    \/ Reset

SpecRows == Init /\ [][NextRows]_vars

\* The two kinds of token in each other's place: tokens are issued, then
\* presented to the operations that take an access token and to postRefresh.
NextKinds ==
    \/ Register
    \/ Login
    \/ ChirpIssued
    \/ UpdateByRefreshToken
    \/ DeleteByRefreshToken
    \/ RefreshByAccessToken

SpecKinds == Init /\ [][NextKinds]_vars

---------------------------------------------------------------------------
(* The access-token codec on its own: MakeJWT for any user, secret and     *)
(* lifetime at any tick, then ValidateJWT under any secret at any later    *)
(* tick.                                                                   *)

\* A caller of MakeJWT: the clock may move between its two readings.
IssueJWT(userID, tokenSecret, expiresIn, d) ==
    /\ jwt.pc = "idle"
    /\ clock + d <= MaxJwtClock
    /\ clock' = clock + d
    /\ jwt' = [jwt EXCEPT !.pc = "issued", !.user = userID, !.secret = tokenSecret,
                          !.ttl = expiresIn, !.issued = clock + d,
                          !.token = <<MakeJWT(userID, tokenSecret, expiresIn,
                                              clock, clock + d)>>]
    /\ UNCHANGED <<users, refresh_tokens, chirps, ids, resp, reqs>>

\* A caller of ValidateJWT.
CheckJWT(tokenSecret) ==
    /\ jwt.pc # "idle"
    /\ jwt' = [jwt EXCEPT !.pc = "checked", !.vsecret = tokenSecret, !.vclock = clock,
                          !.result = ValidateJWT(jwt.token, tokenSecret, clock)]
    /\ UNCHANGED <<clock, users, refresh_tokens, chirps, ids, resp, reqs>>

TickJWT ==
    /\ clock < MaxJwtClock
    /\ clock' = clock + 1
    /\ UNCHANGED <<users, refresh_tokens, chirps, ids, resp, jwt, reqs>>

Issue ==
    \E userID \in 1..MaxUsers, tokenSecret \in Secrets, expiresIn \in 1..MaxTTL,
       d \in 0..1 : IssueJWT(userID, tokenSecret, expiresIn, d)

Check == \E tokenSecret \in Secrets : CheckJWT(tokenSecret)

NextJWT ==
    \/ Issue
    \/ Check
    \/ TickJWT

SpecJWT == Init /\ [][NextJWT]_vars

---------------------------------------------------------------------------
(* GetBearerToken on its own: any Authorization value of a few pieces.     *)

MaxHeaderLen == 3

\* The pieces an Authorization value is made of: the scheme in its own and
\* in another case, another scheme, a space, a token.
HeaderAtoms == {BEARER, Lit("bearer"), Lit("Basic"), SP, HexToken(1)}

RECURSIVE SeqsUpTo(_, _)
SeqsUpTo(S, n) ==
    IF n = 0 THEN {<<>>}
    ELSE LET shorter == SeqsUpTo(S, n - 1)
         IN  shorter \cup {Append(q, a) : q \in shorter, a \in S}

\* headers.Get("Authorization"): <<>> when the header is absent or empty.
HeaderValues == SeqsUpTo(HeaderAtoms, MaxHeaderLen)

\* A caller of GetBearerToken.
ExtractBearer(authorization) ==
    /\ jwt' = [NoJWT EXCEPT !.pc = "bearer", !.authorization = authorization,
                            !.bearer = GetBearerToken(authorization)]
    /\ UNCHANGED <<clock, users, refresh_tokens, chirps, ids, resp, reqs>>

NextBearer == \E authorization \in HeaderValues : ExtractBearer(authorization)

SpecBearer == Init /\ [][NextBearer]_vars

---------------------------------------------------------------------------
(* HashPassword and CheckPasswordHash on their own: any password hashed,   *)
(* any password compared with the result.                                  *)

MaxPasswordLen == 3

PasswordValues == SeqsUpTo({"a", "b"}, MaxPasswordLen)

\* A caller of HashPassword, then of CheckPasswordHash on what it returned
\* (the empty string when it returned an error).
HashAndCheck(password, attempt) ==
    LET hashed == HashPassword(password)
    IN  /\ jwt' = [NoJWT EXCEPT !.pc = "password", !.password = password,
                                !.hash = hashed.hash, !.attempt = attempt,
                                !.match = CheckPasswordHash(attempt, hashed.hash)]
        /\ UNCHANGED <<clock, users, refresh_tokens, chirps, ids, resp, reqs>>

NextPassword ==
    \E password \in PasswordValues, attempt \in PasswordValues :
        HashAndCheck(password, attempt)

SpecPassword == Init /\ [][NextPassword]_vars

---------------------------------------------------------------------------
(* Properties of the access-token codec (SpecJWT).                         *)

\* C6: for every user id u and lifetime t > 0, ValidateJWT of the token
\* MakeJWT(u, secret, t) made, under the same secret, returns u immediately
\* after issuance, and fails as expired at every clock reading
\* now >= issued-at + t, issued-at being the token's own iat claim.
C6_ValidThenExpired ==
    (jwt.pc = "checked" /\ jwt.vsecret = jwt.secret) =>
        /\ (jwt.vclock = jwt.issued) =>
                (jwt.result.ok /\ jwt.result.id = jwt.user)
        /\ (jwt.vclock >= jwt.token[1].iat + jwt.ttl) =>
                (~jwt.result.ok /\ jwt.result.err = "expired")

---------------------------------------------------------------------------
(* Properties of the refresh-token lifecycle (SpecTokens).  A request is   *)
(* recognised by the handler's action on the header the response echoes;   *)
(* fault 0: no statement fails for a reason of the storage layer's own.    *)

\* The rows a redemption of token at the present clock reading may use.
Usable(token) ==
    {r \in refresh_tokens :
        r.token = token /\ r.revoked_at = NULL /\ clock < r.expires_at}

\* C1: a refresh request with token string r at time t succeeds iff a row
\* with token = r exists, its revoked_at is null and t is strictly before its
\* expires_at, which is fixed at creation time + 60 days; when it succeeds the
\* minted access token's subject is the user the row was created for, and in
\* every other case the answer is 401.
C1_RedeemIffUsable ==
    [][ /\ \A r \in refresh_tokens :
              /\ r.expires_at = r.created_at + RefreshWindow
              /\ \E r2 \in refresh_tokens' :
                    /\ r2.token = r.token
                    /\ r2.user_id = r.user_id
                    /\ r2.created_at = r.created_at
                    /\ r2.expires_at = r.expires_at
        /\ \A d \in 0..1 :
              postRefresh(resp'.hdr, 0, d) =>
                LET bearer == GetBearerToken(resp'.hdr)
                    usable == IF bearer.ok THEN Usable(bearer.token) ELSE {}
                IN  /\ (Status(resp') = StatusOK) <=> (usable # {})
                    /\ \A r \in usable :
                          /\ resp'.payload.token[1].sub = UUIDString(r.user_id)
                          /\ ValidateJWT(resp'.payload.token, Secret, clock')
                                = [ok |-> TRUE, id |-> r.user_id, err |-> ""]
                    /\ (usable = {}) => (resp'.writes = <<StatusUnauthorized>>)
      ]_vars

\* C1 happens: a token issued at the start is redeemed one tick before its
\* expiry instant.
C1_Witness ==
    /\ resp.op = "postRefresh"
    /\ Status(resp) = StatusOK
    /\ \E r \in refresh_tokens :
          /\ resp.hdr = Bearer(r.token)
          /\ r.created_at = 0
          /\ clock = r.expires_at - 1
          /\ resp.payload.token[1].sub = UUIDString(r.user_id)

\* C2: revocation is a one-way transition: once the revoke update for token
\* r has been applied, in every sequence of login, refresh, revoke and clock
\* advance the row stays revoked and no later refresh request succeeds with
\* r, however much time remains before its expiry.
C2_RevokedNeverRedeems ==
    [][ \A r \in refresh_tokens :
            (r.revoked_at # NULL) =>
                /\ \A r2 \in refresh_tokens' :
                      (r2.token = r.token) => (r2.revoked_at # NULL)
                /\ \A f \in 0..1, d \in 0..1 :
                      ( /\ postRefresh(resp'.hdr, f, d)
                        /\ GetBearerToken(resp'.hdr).ok
                        /\ GetBearerToken(resp'.hdr).token = r.token )
                      => (Status(resp') # StatusOK /\ resp'.payload.token = <<>>)
      ]_vars

\* C2 happens: a revoked token is refused while time remains before its expiry.
C2_Witness ==
    /\ resp.op = "postRefresh"
    /\ resp.writes = <<StatusUnauthorized>>
    /\ \E r \in refresh_tokens :
          /\ resp.hdr = Bearer(r.token)
          /\ r.revoked_at # NULL
          /\ clock < r.expires_at

\* C3: redemption is read-only: a refresh request, successful or not, leaves
\* every refresh-token row unchanged (token, user_id, created_at, expires_at,
\* revoked_at), so a token redeemed any number of times still expires at its
\* original expiry instant.
C3_RedeemReadOnly ==
    [][ (resp'.op = "postRefresh") => (refresh_tokens' = refresh_tokens) ]_vars

\* C3 happens: a token is redeemed after time has passed and its row still
\* carries the expiry it was created with.
C3_Witness ==
    /\ resp.op = "postRefresh"
    /\ Status(resp) = StatusOK
    /\ \E r \in refresh_tokens :
          /\ resp.hdr = Bearer(r.token)
          /\ clock > r.created_at
          /\ r.expires_at = r.created_at + RefreshWindow
          /\ r.updated_at = r.created_at

\* C4: revoke is idempotent and total: revoking a token that is already
\* revoked, or a token string that was never issued, is answered 204 like a
\* first revoke, changes no other token's row, and leaves the token
\* non-redeemable.
C4_RevokeTotal ==
    [][ ( /\ postRevoke(resp'.hdr, 0)
          /\ GetBearerToken(resp'.hdr).ok )
        => LET token == GetBearerToken(resp'.hdr).token
           IN  /\ resp'.writes = <<StatusNoContent>>
               /\ resp'.payload = NoPayload
               /\ {r \in refresh_tokens' : r.token # token}
                    = {r \in refresh_tokens : r.token # token}
               /\ {r.token : r \in refresh_tokens'} = {r.token : r \in refresh_tokens}
               /\ \A r \in refresh_tokens' : (r.token = token) => (r.revoked_at # NULL)
      ]_vars

\* C4 happens: a token string that was never issued is revoked with 204 while
\* a row that was issued stays redeemable.
C4_Witness ==
    /\ resp.op = "postRevoke"
    /\ resp.hdr = Bearer(UnknownToken)
    /\ resp.writes = <<StatusNoContent>>
    /\ \E r \in refresh_tokens : r.revoked_at = NULL /\ clock < r.expires_at

\* C5: a failed redemption is the same to the caller across its causes: a
\* refresh with a never-issued token, with a revoked token and with an
\* expired token all get the same response, status 401 and the same (empty)
\* body, with no distinct code for any of the three.
C5_DenialsAlike ==
    [][ \A d \in 0..1 :
          ( /\ postRefresh(resp'.hdr, 0, d)
            /\ GetBearerToken(resp'.hdr).ok
            /\ LET token == GetBearerToken(resp'.hdr).token
               IN  \/ ~\E r \in refresh_tokens : r.token = token
                   \/ \E r \in refresh_tokens : r.token = token /\ r.revoked_at # NULL
                   \/ \E r \in refresh_tokens : r.token = token /\ r.expires_at <= clock )
          => resp' = Response("postRefresh", resp'.hdr, <<StatusUnauthorized>>, NoPayload)
      ]_vars

\* C5 happens: an expired token that was never revoked is refused with 401.
C5_Witness ==
    /\ resp.op = "postRefresh"
    /\ resp.writes = <<StatusUnauthorized>>
    /\ \E r \in refresh_tokens :
          /\ resp.hdr = Bearer(r.token)
          /\ r.revoked_at = NULL
          /\ r.expires_at <= clock

---------------------------------------------------------------------------
(* Properties of the protected operations (SpecProtected).                 *)

\* The caller a request's Authorization header stands for at the present
\* clock reading: GetBearerToken, then ValidateJWT under the service's secret.
Authenticate(hdr) ==
    LET bearer == GetBearerToken(hdr)
    IN  IF bearer.ok THEN ValidateJWT(bearer.token, Secret, clock)
        ELSE JWTError("no token")

\* The chirp a well-formed path names, if it is stored.
Existing(path) ==
    IF ParseUUID(path).ok THEN GetChirp(ParseUUID(path).id) ELSE {}

\* C8: for every protected operation (postChirps, putUsers,
\* deleteChirpsChirpID on an existing chirp), a request whose bearer
\* credential is missing or whose token fails validation for any reason is
\* answered with the single 401 Unauthorized outcome and performs no storage
\* mutation.
C8_UnauthenticatedIs401 ==
    [][ LET refused ==
                /\ ~Authenticate(resp'.hdr).ok
                /\ \/ \E body \in ChirpBodies : postChirps(resp'.hdr, body, 0)
                   \/ \E body \in UpdateBodies : putUsers(resp'.hdr, body, 0)
                   \/ /\ Existing(resp'.path) # {}
                      /\ deleteChirpsChirpID(resp'.path, resp'.hdr, 0)
        IN  refused =>
                /\ resp'.writes = <<StatusUnauthorized>>
                /\ UNCHANGED <<users, refresh_tokens, chirps>>
      ]_vars

\* C9: a delete request authenticated as user u on an existing chirp c
\* deletes c iff c's owner id equals u; when the owner differs the response
\* is 403 Forbidden and c is still present afterwards.
C9_DeleteIffOwner ==
    [][ ( /\ deleteChirpsChirpID(resp'.path, resp'.hdr, 0)
          /\ Existing(resp'.path) # {}
          /\ Authenticate(resp'.hdr).ok )
        => LET c == ParseUUID(resp'.path).id
               u == Authenticate(resp'.hdr).id
           IN  /\ (c \notin DOMAIN chirps') <=> (chirps[c].user_id = u)
               /\ (chirps[c].user_id = u) =>
                     /\ resp'.writes = <<StatusNoContent>>
                     /\ chirps' = [k \in DOMAIN chirps \ {c} |-> chirps[k]]
               /\ (chirps[c].user_id # u) =>
                     /\ resp'.writes = <<StatusForbidden>>
                     /\ chirps' = chirps
      ]_vars

\* C9 happens: a user who holds a valid access token asks to delete another
\* user's chirp, is answered 403, and the chirp is still stored.
C9_Witness ==
    /\ resp.op = "deleteChirpsChirpID"
    /\ resp.writes = <<StatusForbidden>>
    /\ Authenticate(resp.hdr).ok
    /\ \E c \in Existing(resp.path) : chirps[c].user_id # Authenticate(resp.hdr).id

\* C10: the ownership check is evaluated only after the chirp has been
\* found: a delete request for a chirp id that does not exist is answered
\* 404 Not Found and never 403 Forbidden, whatever credential it carries.
C10_MissingIs404 ==
    [][ ( /\ deleteChirpsChirpID(resp'.path, resp'.hdr, 0)
          /\ ParseUUID(resp'.path).ok
          /\ Existing(resp'.path) = {} )
        => /\ resp'.writes = <<StatusNotFound>>
           /\ chirps' = chirps
      ]_vars

\* C10 happens: a caller with a valid access token, while another chirp is
\* stored, asks to delete an id that is not stored and is answered 404.
C10_Witness ==
    /\ resp.op = "deleteChirpsChirpID"
    /\ resp.writes = <<StatusNotFound>>
    /\ ParseUUID(resp.path).ok
    /\ Existing(resp.path) = {}
    /\ Authenticate(resp.hdr).ok
    /\ chirps # <<>>

---------------------------------------------------------------------------
(* Properties of GetBearerToken (SpecBearer).                              *)

\* strings.HasPrefix(s, "Bearer ")
HasBearerPrefix(s) == Len(s) >= 2 /\ SubSeq(s, 1, 2) = <<BEARER, SP>>

\* C11: GetBearerToken requires the fixed case-sensitive scheme prefix
\* "Bearer ": an Authorization value that does not start with that prefix
\* never yields a token string (it is an error), and a value with the prefix
\* yields the remainder with the prefix and surrounding whitespace removed.
C11_PrefixRequired ==
    (jwt.pc = "bearer") =>
        /\ ~HasBearerPrefix(jwt.authorization) => ~jwt.bearer.ok
        /\ (HasBearerPrefix(jwt.authorization) /\ jwt.bearer.ok) =>
              jwt.bearer.token
                = TrimSpace(SubSeq(jwt.authorization, 3, Len(jwt.authorization)))

\* C12: GetBearerToken returns an error, never a successful empty string,
\* both when the Authorization header is absent and when nothing remains
\* after stripping the scheme prefix and whitespace.
C12_EmptyIsMissing ==
    (jwt.pc = "bearer") =>
        /\ (jwt.authorization = <<>>) => ~jwt.bearer.ok
        /\ jwt.bearer.ok => (jwt.bearer.token # <<>>)

---------------------------------------------------------------------------
(* Properties of the password hash (SpecPassword).                         *)

\* C15: for all passwords p, CheckPasswordHash(p, HashPassword(p)) succeeds,
\* and for all p' different from p, CheckPasswordHash(p', HashPassword(p))
\* fails.
C15_VerifyIffSame ==
    (jwt.pc = "password") => (jwt.match <=> (jwt.attempt = jwt.password))

---------------------------------------------------------------------------
(* Properties of postLogin (SpecTokens).                                   *)

\* The users a login body names with their own password, and with another.
RightPassword(body) ==
    {u \in DOMAIN users :
        /\ body.decoded
        /\ users[u].email = body.email
        /\ users[u].hashed_password = <<"bcrypt", body.password>>}

WrongPassword(body) ==
    {u \in DOMAIN users :
        /\ body.decoded
        /\ users[u].email = body.email
        /\ users[u].hashed_password # <<"bcrypt", body.password>>}

\* The fixed answer of postLogin to a password that does not match.
LoginRefused ==
    Response("postLogin", <<>>, <<StatusUnauthorized>>,
             Text("Incorrect email or password"))

\* C13: a login with the correct password for an existing user answers 200
\* with a new access token whose subject is that user and a new refresh
\* token of 64 hex characters, and exactly one refresh-token row holding that
\* token string and that user's id has been persisted; a refresh token is
\* never returned to a client without having been persisted.
C13_LoginIssuesPersisted ==
    [][ /\ (resp'.payload.refresh_token # <<>>) =>
              \E r \in refresh_tokens' : r.token = resp'.payload.refresh_token
        /\ \A body \in LoginBodies, d \in 0..1 :
              ( /\ resp'.op = "postLogin"
                /\ RightPassword(body) # {}
                /\ postLogin(body, 0, d) ) =>
                LET issued == resp'.payload.refresh_token
                    rows == {r \in refresh_tokens' : r.token = issued}
                IN  /\ resp'.writes = <<StatusOK>>
                    /\ \A u \in RightPassword(body) :
                          /\ resp'.payload.id = u
                          /\ ValidateJWT(resp'.payload.token, Secret, clock')
                                = [ok |-> TRUE, id |-> u, err |-> ""]
                          /\ \A r \in rows : r.user_id = u
                    /\ Len(issued) = 1
                    /\ issued[1].kind = "hex"
                    /\ issued[1].chars = 64
                    /\ ~\E r \in refresh_tokens : r.token = issued
                    /\ Cardinality(rows) = 1
                    /\ refresh_tokens' = refresh_tokens \cup rows
      ]_vars

\* C13 happens: a second login has been answered with a refresh token whose
\* one row carries the user the response names.
C13_Witness ==
    /\ resp.op = "postLogin"
    /\ resp.writes = <<StatusOK>>
    /\ Cardinality(refresh_tokens) = 2
    /\ \E r \in refresh_tokens :
          /\ r.token = resp.payload.refresh_token
          /\ r.user_id = resp.payload.id
          /\ resp.payload.token[1].sub = UUIDString(r.user_id)

C20_UnknownEmailAlike ==
    [][ \A body \in LoginBodies, d \in 0..1 :
            ( /\ resp'.op = "postLogin"
              /\ body.decoded
              /\ (GetUserByEmail(body.email) = {} \/ WrongPassword(body) # {})
              /\ postLogin(body, 0, d) )
            => (resp' = LoginRefused)
      ]_vars

---------------------------------------------------------------------------
(* Properties of the stored rows (SpecRows).                               *)

---------------------------------------------------------------------------
(* Properties of the two kinds of token (SpecKinds).                       *)

\* The statuses of a request that was carried out for an authenticated caller
\* or refused for not owning the resource.
Authenticated ==
    {StatusOK, StatusCreated, StatusNoContent, StatusForbidden}

---------------------------------------------------------------------------
(* Properties of validation against the stored rows (SpecRows).            *)

\* The access tokens validated while the stored rows change.
ProbeTokens == PeerTokens \cup BadTokens

---------------------------------------------------------------------------
(* Login, refresh and revoke served concurrently: net/http runs each       *)
(* handler in its own goroutine, the handlers share only the database, and *)
(* PostgreSQL executes each statement atomically. A step is one statement  *)
(* of one handler together with the Go code up to the next statement.      *)

\* The one registered user, and the logins sent: with the right password
\* and with a wrong one, before and after the registration.
ConcurrentUser == [decoded |-> TRUE, email |-> "a@x", password |-> <<"pw">>]
ConcurrentBodies == {b \in LoginBodies : b.decoded /\ b.email = ConcurrentUser.email
                                         /\ b.password # <<>>}
\* The refresh tokens sent: those issued so far, revoked or not.
ConcurrentHeaders == {Bearer(r.token) : r \in refresh_tokens}

\* The handler has returned: its locals are gone.
Done(rq, writes) ==
    [NoReq EXCEPT !.op = rq.op, !.pc = "done", !.writes = writes,
                  !.mutations = rq.mutations]

\* net/http hands a request to its handler, the first of a connection or
\* the next one after it has answered.
Serve(i) ==
    /\ reqs[i].pc \in {"idle", "done"}
    /\ \/ \E body \in ConcurrentBodies :
            reqs' = [reqs EXCEPT ![i] = [NoReq EXCEPT !.op = "postLogin", !.pc = "GetUserByEmail",
                                                      !.body = body]]
       \/ \E hdr \in ConcurrentHeaders :
            reqs' = [reqs EXCEPT ![i] = [NoReq EXCEPT !.op = "postRefresh", !.pc = "GetRefreshToken",
                                                      !.hdr = hdr]]
       \/ \E hdr \in ConcurrentHeaders :
            reqs' = [reqs EXCEPT ![i] = [NoReq EXCEPT !.op = "postRevoke", !.pc = "RevokeRefreshToken",
                                                      !.hdr = hdr]]
    /\ UNCHANGED <<clock, users, refresh_tokens, chirps, ids, resp, jwt>>

\* postLogin up to the password check: the SELECT of the user.
LoginGetUserByEmail(i) ==
    LET rq == reqs[i]
        found == GetUserByEmail(rq.body.email)
        row == CHOOSE u \in found : TRUE
    IN  /\ rq.op = "postLogin" /\ rq.pc = "GetUserByEmail"
        /\ reqs' = [reqs EXCEPT ![i] =
                IF found = {}
                THEN Done(rq, <<StatusInternalServerError>>)
                ELSE IF ~CheckPasswordHash(rq.body.password, users[row].hashed_password)
                THEN Done(rq, <<StatusUnauthorized>>)
                ELSE [rq EXCEPT !.pc = "CreateRefreshToken", !.user = found,
                                !.body = NoReq.body]]
        /\ UNCHANGED <<clock, users, refresh_tokens, chirps, ids, resp, jwt>>

\* postLogin from MakeJWT to the response: the INSERT of the session row.
LoginCreateRefreshToken(i) ==
    LET rq == reqs[i]
        row == CHOOSE u \in rq.user : TRUE
        refreshToken == MakeRefreshToken(ids.token + 1)
    IN  /\ rq.op = "postLogin" /\ rq.pc = "CreateRefreshToken"
        /\ ids.token < MaxRefreshTokens
        /\ ids' = [ids EXCEPT !.token = @ + 1]
        /\ refresh_tokens' = refresh_tokens \cup {CreateRefreshToken(refreshToken, row, clock)}
        /\ reqs' = [reqs EXCEPT ![i] =
                Done([rq EXCEPT !.mutations = @ + 1], <<StatusOK>>)]
        /\ UNCHANGED <<clock, users, chirps, resp, jwt>>

\* postRefresh up to MakeJWT: the SELECT of the session row.
RefreshGetRefreshToken(i) ==
    LET rq == reqs[i]
        bearer == GetBearerToken(rq.hdr)
        found == GetRefreshToken(bearer.token, clock)
    IN  /\ rq.op = "postRefresh" /\ rq.pc = "GetRefreshToken"
        /\ refresh_tokens' = RefreshWrites(found, clock)
        /\ reqs' = [reqs EXCEPT ![i] =
                IF found = {}
                THEN Done(rq, RefreshDenied(bearer.token, clock))
                ELSE [rq EXCEPT !.pc = "MakeJWT", !.row = found]]
        /\ UNCHANGED <<clock, users, chirps, ids, resp, jwt>>

\* postRefresh from MakeJWT to the response: no statement.
RefreshMakeJWT(i) ==
    LET rq == reqs[i]
    IN  /\ rq.op = "postRefresh" /\ rq.pc = "MakeJWT"
        /\ reqs' = [reqs EXCEPT ![i] = Done(rq, <<StatusOK>>)]
        /\ UNCHANGED <<clock, users, refresh_tokens, chirps, ids, resp, jwt>>

\* postRevoke: the UPDATE of the session row.
RevokeRevokeRefreshToken(i) ==
    LET rq == reqs[i]
        bearer == GetBearerToken(rq.hdr)
    IN  /\ rq.op = "postRevoke" /\ rq.pc = "RevokeRefreshToken"
        /\ refresh_tokens' = RevokeRefreshToken(bearer.token, clock)
        /\ reqs' = [reqs EXCEPT ![i] =
                Done([rq EXCEPT !.mutations = @ + 1], <<StatusNoContent>>)]
        /\ UNCHANGED <<clock, users, chirps, ids, resp, jwt>>

\* Time passes once while the requests are served.
TickOnce == clock = 0 /\ Advance(RefreshWindow - 1)
RegisterFirst == users = <<>> /\ postUsers(ConcurrentUser, 0)
ServeAny == \E i \in 1..MaxRequests : Serve(i)
LoginSelects == \E i \in 1..MaxRequests : LoginGetUserByEmail(i)
LoginInserts == \E i \in 1..MaxRequests : LoginCreateRefreshToken(i)
RefreshSelects == \E i \in 1..MaxRequests : RefreshGetRefreshToken(i)
RefreshAnswers == \E i \in 1..MaxRequests : RefreshMakeJWT(i)
RevokeUpdates == \E i \in 1..MaxRequests : RevokeRevokeRefreshToken(i)

NextConcurrent ==
    \/ RegisterFirst
    \/ ServeAny
    \/ LoginSelects
    \/ LoginInserts
    \/ RefreshSelects
    \/ RefreshAnswers
    \/ RevokeUpdates
    \/ TickOnce

SpecConcurrent == Init /\ [][NextConcurrent]_vars

---------------------------------------------------------------------------
(* Properties of the concurrent handlers (SpecConcurrent).                 *)

\* A session row as one statement leaves it: the INSERT sets created_at,
\* updated_at and expires_at from one NOW(), the UPDATE sets revoked_at and
\* updated_at from one NOW().
Whole(r) ==
    /\ r.expires_at = r.created_at + RefreshWindow
    /\ r.revoked_at = NULL => r.updated_at = r.created_at
    /\ r.revoked_at # NULL => r.updated_at = r.revoked_at

Serving(i, op) == reqs[i].op = op /\ reqs[i].pc # "done"

\* C19: under any interleaving of concurrent login, refresh and revoke
\* requests, each handler performs at most one storage mutation and that
\* mutation is a single atomic statement, so no reader observes a
\* refresh-token row with revoked_at or expires_at partially updated, and
\* concurrent refreshes of the same token never change its expiry.
C19_AtomicStatements ==
    [][ /\ \A i \in 1..MaxRequests :
            /\ reqs'[i].mutations <= 1
            /\ \A r \in reqs'[i].row : Whole(r)
            /\ (Serving(i, "postRefresh") /\ reqs'[i] # reqs[i]) =>
                    refresh_tokens' = refresh_tokens
        /\ \A r \in refresh_tokens' : Whole(r)
        /\ \A r \in refresh_tokens :
            \E r2 \in refresh_tokens' :
                r2.token = r.token /\ r2.expires_at = r.expires_at
      ]_vars

\* C19 happens: a refresh is between its SELECT and its answer, holding
\* the row as it read it, while a revoke of the same token has since run
\* its one UPDATE at a later instant than the INSERT.
C19_Witness ==
    \E i, j \in 1..MaxRequests :
        /\ reqs[i].op = "postRefresh" /\ reqs[i].pc = "MakeJWT"
        /\ reqs[j].op = "postRevoke" /\ reqs[j].pc = "done"
        /\ reqs[j].mutations = 1
        /\ \A r \in reqs[i].row : r.revoked_at = NULL
        /\ \E r \in refresh_tokens :
            /\ Bearer(r.token) = reqs[i].hdr
            /\ r.revoked_at # NULL
            /\ r.revoked_at > r.created_at

---------------------------------------------------------------------------
(* Properties of the statuses written (SpecTokens) and of the stored users *)
(* (SpecProtected).                                                        *)

\* C21: every handler sets the response status exactly once per request; in
\* particular postRevoke writes 204 No Content only when the revoke update
\* succeeded, and on a storage error writes 500 and nothing else.
C21_StatusOnce ==
    [][ /\ resp'.op # "" => Len(resp'.writes) = 1
        /\ \A fault \in 0..1 :
            (resp'.op = "postRevoke" /\ postRevoke(resp'.hdr, fault)) =>
                /\ (\E k \in DOMAIN resp'.writes : resp'.writes[k] = StatusNoContent)
                        => (fault = 0 /\ GetBearerToken(resp'.hdr).ok)
                /\ fault # 0 => resp'.writes = <<StatusInternalServerError>>
      ]_vars

\* C22: after any sequence of registrations (postUsers) and authenticated
\* updates (putUsers), every stored user has a non-empty email and a
\* credential that is the hash of a non-empty password.
C22_UsersNonEmpty ==
    \A u \in DOMAIN users :
        /\ users[u].email # ""
        /\ users[u].hashed_password # HashPassword(<<>>).hash

===========================================================================
